---- MODULE Spec2Model ----
(***************************************************************************)
(* Model of flib_rs (src/src/lib.rs): ingestion of an .inpx catalog into   *)
(* a Tantivy index, free-text search, point lookup by id, and extraction  *)
(* of "<id>.fb2" from a per-book zip archive.                              *)
(*                                                                         *)
(* Text is modelled as a sequence of one-character strings, so that the   *)
(* string operations of the code (ends_with, trim_end_matches, split,     *)
(* lines, parse::<u64>, format!) are computed and not assumed.            *)
(***************************************************************************)
EXTENDS Integers, Sequences, FiniteSets

\* ------------------------------------------------------------------ text

\* The field delimiter '\x04', the line feed and the carriage return.
SEP == "<04>"
LF == "<LF>"
CR == "<CR>"

Digits == <<"0", "1", "2", "3", "4", "5", "6", "7", "8", "9">>
UpperCase == <<"A", "B", "C", "D", "E", "F", "G", "H", "I", "J", "K", "L", "M",
               "N", "O", "P", "Q", "R", "S", "T", "U", "V", "W", "X", "Y", "Z">>
LowerCase == <<"a", "b", "c", "d", "e", "f", "g", "h", "i", "j", "k", "l", "m",
               "n", "o", "p", "q", "r", "s", "t", "u", "v", "w", "x", "y", "z">>

Range(s) == {s[k] : k \in DOMAIN s}

IndexOf(c, s) == CHOOSE k \in DOMAIN s : s[k] = c

DigitSet == Range(Digits)

IsDigit(c) == c \in DigitSet

DigitVal(c) == IndexOf(c, Digits) - 1

\* str::ends_with
EndsWith(s, suf) ==
    /\ Len(s) >= Len(suf)
    /\ SubSeq(s, Len(s) - Len(suf) + 1, Len(s)) = suf

\* str::trim_end_matches: the suffix is removed as many times as it occurs.
RECURSIVE TrimEndMatches(_, _)
TrimEndMatches(s, suf) ==
    IF Len(suf) > 0 /\ EndsWith(s, suf)
    THEN TrimEndMatches(SubSeq(s, 1, Len(s) - Len(suf)), suf)
    ELSE s

\* str::split(char): always at least one piece; n delimiters give n+1 pieces.
RECURSIVE Split(_, _)
Split(s, sep) ==
    IF sep \notin Range(s)
    THEN <<s>>
    ELSE LET k == CHOOSE i \in DOMAIN s :
                      s[i] = sep /\ \A j \in 1..(i - 1) : s[j] # sep
         IN <<SubSeq(s, 1, k - 1)>> \o Split(SubSeq(s, k + 1, Len(s)), sep)

\* str::lines: pieces end at a line feed; the line feed, and a carriage
\* return right before it, are removed; no piece follows the last line feed.
RECURSIVE Lines(_)
Lines(s) ==
    IF s = <<>> THEN <<>>
    ELSE IF LF \notin Range(s) THEN <<s>>
    ELSE LET k == CHOOSE i \in DOMAIN s :
                      s[i] = LF /\ \A j \in 1..(i - 1) : s[j] # LF
             raw == SubSeq(s, 1, k - 1)
             line == IF EndsWith(raw, <<CR>>)
                     THEN SubSeq(raw, 1, Len(raw) - 1) ELSE raw
         IN <<line>> \o Lines(SubSeq(s, k + 1, Len(s)))

\* The decimal digits of u64::MAX = 18446744073709551615.
U64MaxDigits == <<"1", "8", "4", "4", "6", "7", "4", "4", "0", "7",
                  "3", "7", "0", "9", "5", "5", "1", "6", "1", "5">>

RECURSIVE StripZeros(_)
StripZeros(d) ==
    IF Len(d) > 1 /\ d[1] = "0" THEN StripZeros(Tail(d)) ELSE d

\* d > m for two digit strings of the same length.
RECURSIVE DigitsGreater(_, _)
DigitsGreater(d, m) ==
    IF d = <<>> THEN FALSE
    ELSE IF DigitVal(d[1]) # DigitVal(m[1]) THEN DigitVal(d[1]) > DigitVal(m[1])
    ELSE DigitsGreater(Tail(d), Tail(m))

\* The checked accumulation of str::parse::<u64> overflows exactly when the
\* number exceeds u64::MAX.
Overflows(d) ==
    LET n == StripZeros(d)
    IN \/ Len(n) > Len(U64MaxDigits)
       \/ Len(n) = Len(U64MaxDigits) /\ DigitsGreater(n, U64MaxDigits)

RECURSIVE DigitsValue(_, _)
DigitsValue(d, acc) ==
    IF d = <<>> THEN acc ELSE DigitsValue(Tail(d), acc * 10 + DigitVal(d[1]))

\* str::parse::<u64>: an optional leading '+', then one or more decimal
\* digits, nothing else; the value must fit 64 bits.
ParseU64(s) ==
    LET d == IF Len(s) > 1 /\ s[1] = "+" THEN Tail(s) ELSE s
    IN IF d = <<>> \/ \E k \in DOMAIN d : ~IsDigit(d[k]) \/ Overflows(d)
       THEN [ok |-> FALSE, val |-> 0]
       ELSE [ok |-> TRUE, val |-> DigitsValue(d, 0)]

\* Display of a u64, as used by format!("{}.fb2", id).
RECURSIVE U64ToString(_)
U64ToString(n) ==
    IF n < 10 THEN <<Digits[n + 1]>>
    ELSE U64ToString(n \div 10) \o <<Digits[(n % 10) + 1]>>

INP == <<".", "i", "n", "p">>
ZIP == <<".", "z", "i", "p">>
FB2 == <<".", "f", "b", "2">>

\* Path::join of a directory and a relative file name.
PathJoin(dir, name) == dir \o <<"/">> \o name

\* format!("{}.fb2", id)
InternalFileName(id) == U64ToString(id) \o FB2

\* ------------------------------------------------------- index engine

\* create_schema: the four fields of an index document, in order.
create_schema ==
    << [name |-> "id", type |-> "u64", stored |-> TRUE],
       [name |-> "author", type |-> "text", stored |-> TRUE],
       [name |-> "title", type |-> "text", stored |-> TRUE],
       [name |-> "zip_archive", type |-> "text", stored |-> TRUE] >>

UpperSet == Range(UpperCase)
AlnumSet == Range(UpperCase) \cup Range(LowerCase) \cup Range(Digits)

Lower(c) == IF c \in UpperSet THEN LowerCase[IndexOf(c, UpperCase)] ELSE c

IsAlnum(c) == c \in AlnumSet

\* The tokenizer of a TEXT field: maximal alphanumeric runs, lower-cased.
\* `cur` is the token being read, `out` the tokens read.
RECURSIVE TokensFrom(_, _, _)
TokensFrom(s, cur, out) ==
    IF s = <<>> THEN (IF cur = <<>> THEN out ELSE Append(out, cur))
    ELSE IF IsAlnum(s[1]) THEN TokensFrom(Tail(s), Append(cur, Lower(s[1])), out)
    ELSE TokensFrom(Tail(s), <<>>, IF cur = <<>> THEN out ELSE Append(out, cur))

Tokens(s) == TokensFrom(s, <<>>, <<>>)

\* The number of TopDocs::with_limit(10) in search_tantivy.
SearchLimit == 10

\* The number of TopDocs::with_limit(1) in the lookups by id.
LookupLimit == 1

\* QueryParser::parse_query: a query with an unclosed quote is a syntax
\* error; otherwise the query is the disjunction of its terms.
ParseQuery(q) ==
    LET quotes == {k \in DOMAIN q : q[k] = "\""}
    IN IF Cardinality(quotes) % 2 = 1
       THEN [ok |-> FALSE, terms |-> {}]
       ELSE [ok |-> TRUE, terms |-> Range(Tokens(q))]

\* Relevance of a document for the terms, over the default fields author
\* and title: the number of token occurrences that match.
Score(doc, terms) ==
    LET a == Tokens(doc.author)
        t == Tokens(doc.title)
    IN Cardinality({k \in DOMAIN a : a[k] \in terms})
       + Cardinality({k \in DOMAIN t : t[k] \in terms})

\* The tuple search_tantivy returns for a retrieved document.
HitOf(doc, terms) == <<doc.id, doc.author, doc.title, Score(doc, terms)>>

\* A hit placed after the hits that score at least as much as it does.
InsertHit(ranked, h) ==
    LET k == Cardinality({j \in DOMAIN ranked : ranked[j][4] >= h[4]})
    IN SubSeq(ranked, 1, k) \o <<h>> \o SubSeq(ranked, k + 1, Len(ranked))

\* The matching documents by descending score, ties in document order.
RECURSIVE RankHits(_, _, _)
RankHits(docs, terms, ranked) ==
    IF docs = <<>> THEN ranked
    ELSE LET h == HitOf(Head(docs), terms)
         IN RankHits(Tail(docs), terms, IF h[4] > 0 THEN InsertHit(ranked, h) ELSE ranked)

Take(s, n) == SubSeq(s, 1, IF Len(s) < n THEN Len(s) ELSE n)

\* TopDocs without the limit.
TopDocsUnlimited(docs, terms, n) == RankHits(docs, terms, <<>>)

\* searcher.search(&query, &TopDocs::with_limit(n)) and the loop over it.
TopDocs(docs, terms, n) == Take(RankHits(docs, terms, <<>>), n)

\* The documents a TermQuery on the id field matches.
IdMatches(docs, id) == {k \in DOMAIN docs : docs[k].id = id}

\* ----------------------------------------------------------- ingestion

\* open_or_create_index. The index path is absent ("absent"), a regular
\* file ("file"), a directory without an index ("dir") or a directory
\* holding an index ("index"). Path::exists is true of all but "absent";
\* Index::open_in_dir succeeds on "index" only.
PathExists(kind) == kind # "absent"

\* open_or_create_index whose create branch stops after create_dir_all: the
\* directory is there, no index is in it.
open_or_create_dir_only(idx) ==
    IF PathExists(idx.kind)
    THEN [mode |-> "open", ok |-> idx.kind = "index", index |-> idx]
    ELSE [mode |-> "create", ok |-> TRUE,
          index |-> [kind |-> "dir", schema |-> <<>>, docs |-> <<>>]]

open_or_create_index(idx) ==
    IF PathExists(idx.kind)
    THEN [mode |-> "open", ok |-> idx.kind = "index", index |-> idx]
    ELSE [mode |-> "create", ok |-> TRUE,
          index |-> [kind |-> "index", schema |-> create_schema, docs |-> <<>>]]

\* The first loop of build_tantivy_index: the text of every member that
\* can be opened, is named *.inp and reads as UTF-8, in container order.
RECURSIVE contents_vec(_)
contents_vec(members) ==
    IF members = <<>> THEN <<>>
    ELSE LET m == Head(members)
         IN (IF m.open /\ EndsWith(m.name, INP) /\ m.utf8 THEN <<m.data>> ELSE <<>>)
            \o contents_vec(Tail(members))

\* The name of the per-book archive for a member name.
zip_file_name(inp_file_name) == TrimEndMatches(inp_file_name, INP) \o ZIP

\* Book { id, author_name, book_title, zip_archive } from the fields.
MakeBook(id, fields, zip_archive_path) ==
    [id |-> id, author_name |-> fields[1], book_title |-> fields[3],
     zip_archive |-> zip_archive_path]

\* The minimum number of fields of a catalog line.
MinFields == 11

\* The 1-based position of the id among the fields (fields[5] in the code).
IdField == 6

\* One iteration of the inner loop of the second loop, for the line `line`
\* of contents_vec[i]: "skip" (continue), "error" (the ? on by_index) or
\* "book". The member is fetched by archive.by_index(i), i being the
\* position in contents_vec.
ProcessLine(members, i, line, dir, existing) ==
    LET fields == Split(TrimEndMatches(line, <<LF>>), SEP)
        skip == [kind |-> "skip", book |-> MakeBook(0, <<<<>>, <<>>, <<>>>>, <<>>)]
    IN IF Len(fields) < MinFields THEN skip
       ELSE LET p == ParseU64(fields[IdField])
            IN IF ~p.ok THEN skip
               ELSE IF ~members[i].open THEN [skip EXCEPT !.kind = "error"]
               ELSE IF ~EndsWith(members[i].name, INP) THEN skip
               ELSE LET path == PathJoin(dir, zip_file_name(members[i].name))
                    IN IF path \notin existing THEN skip
                       ELSE [kind |-> "book", book |-> MakeBook(p.val, fields, path)]

\* All (i, line) pairs in the order the second loop visits them.
RECURSIVE LinePairs(_, _)
LinePairs(contents, i) ==
    IF i > Len(contents) THEN <<>>
    ELSE LET ls == Lines(contents[i])
         IN [k \in 1..Len(ls) |-> [i |-> i, line |-> ls[k]]] \o LinePairs(contents, i + 1)

\* The second loop: books accumulated until the end or the first error.
\* `lines` keeps, next to each book, the (i, line) pair it was made from.
RECURSIVE ProcessPairs(_, _, _, _, _)
ProcessPairs(members, pairs, dir, existing, acc) ==
    IF pairs = <<>> THEN acc
    ELSE LET r == ProcessLine(members, Head(pairs).i, Head(pairs).line, dir, existing)
         IN IF r.kind = "error" THEN [acc EXCEPT !.err = TRUE]
            ELSE IF r.kind = "skip"
                 THEN ProcessPairs(members, Tail(pairs), dir, existing, acc)
                 ELSE ProcessPairs(members, Tail(pairs), dir, existing,
                                   [acc EXCEPT !.books = Append(@, r.book),
                                               !.lines = Append(@, Head(pairs))])

CollectBooks(members, dir, existing) ==
    ProcessPairs(members, LinePairs(contents_vec(members), 1), dir, existing,
                 [err |-> FALSE, books |-> <<>>, lines |-> <<>>])

\* The Tantivy document of a book.
DocOf(book) ==
    [id |-> book.id, author |-> book.author_name, title |-> book.book_title,
     zip_archive |-> book.zip_archive]

\* A commit that replaces the committed documents whose id is added again.
CommitUpsert(docs, added) ==
    SelectSeq(docs, LAMBDA d : \A k \in DOMAIN added : added[k].id # d.id) \o added

\* IndexWriter::commit: the documents added since the writer was created
\* become visible, after those already committed.
Commit(docs, added) == docs \o added

\* ------------------------------------------------------------- readers

NoResult ==
    [op |-> "none", id |-> 0, query |-> <<>>, status |-> "none", err |-> "none",
     info |-> <<>>, hits |-> <<>>, entry |-> <<>>]

Failure(op, id, query, err) ==
    [NoResult EXCEPT !.op = op, !.id = id, !.query = query,
                     !.status = "err", !.err = err]

\* Path::exists of an archive path.
ArchiveExists(dsk, path) == path \in DOMAIN dsk /\ dsk[path].kind # "missing"

\* search_tantivy: the possible outcomes for an index and a query string.
search_tantivy(idx, q) ==
    IF idx.kind # "index" THEN {Failure("search", 0, q, "open_index")}
    ELSE LET pq == ParseQuery(q)
         IN IF ~pq.ok THEN {Failure("search", 0, q, "query_syntax")}
            ELSE {[NoResult EXCEPT !.op = "search", !.query = q, !.status = "ok",
                                   !.hits = TopDocs(idx.docs, pq.terms, SearchLimit)]}

\* InfoOf with the two strings in the other order.
InfoOfSwapped(doc) == <<doc.author, doc.title>>

\* The pair get_info returns for a retrieved document.
InfoOf(doc) == <<doc.title, doc.author>>

\* get_info that falls back to empty strings, as search_tantivy does with
\* unwrap_or(""), when no document is found.
get_info_or_default(idx, id) ==
    IF idx.kind # "index" THEN {Failure("get_info", id, <<>>, "open_index")}
    ELSE IF IdMatches(idx.docs, id) = {}
         THEN {[NoResult EXCEPT !.op = "get_info", !.id = id, !.status = "ok",
                                !.info = << <<>>, <<>> >>]}
         ELSE {[NoResult EXCEPT !.op = "get_info", !.id = id, !.status = "ok",
                                !.info = <<idx.docs[k].title, idx.docs[k].author>>]
               : k \in IdMatches(idx.docs, id)}

\* get_info: the possible outcomes. All documents with the id score alike
\* for the term query, so which of them TopDocs::with_limit(1) yields is
\* left to the engine.
get_info(idx, id) ==
    IF idx.kind # "index" THEN {Failure("get_info", id, <<>>, "open_index")}
    ELSE IF Cardinality(IdMatches(idx.docs, id)) < LookupLimit
         THEN {Failure("get_info", id, <<>>, "no_document")}
         ELSE {[NoResult EXCEPT !.op = "get_info", !.id = id, !.status = "ok",
                                !.info = InfoOf(idx.docs[k])]
               : k \in IdMatches(idx.docs, id)}

\* ExtractFrom without the check that the archive path exists: a missing
\* archive is then met by PartialZip::new.
ExtractFromUnchecked(op, dsk, doc, id) ==
    LET name == InternalFileName(id)
        path == doc.zip_archive
    IN IF ~ArchiveExists(dsk, path) \/ dsk[path].kind = "corrupt"
       THEN {Failure(op, id, <<>>, "partial_zip")}
       ELSE IF name \notin dsk[path].names THEN {Failure(op, id, <<>>, "entry_not_found")}
       ELSE {[NoResult EXCEPT !.op = op, !.id = id, !.status = "ok", !.entry = name],
             [Failure(op, id, <<>>, "extract") EXCEPT !.entry = name]}

\* What follows the lookup in download_file and get_file_bytes, for the
\* retrieved document: the archive must exist, PartialZip must open it, its
\* name list must hold "<id>.fb2"; then that entry is extracted, which may
\* itself fail.
ExtractFrom(op, dsk, doc, id) ==
    LET name == InternalFileName(id)
        path == doc.zip_archive
    IN IF ~ArchiveExists(dsk, path) THEN {Failure(op, id, <<>>, "archive_missing")}
       ELSE IF dsk[path].kind = "corrupt" THEN {Failure(op, id, <<>>, "partial_zip")}
       ELSE IF name \notin dsk[path].names THEN {Failure(op, id, <<>>, "entry_not_found")}
       ELSE {[NoResult EXCEPT !.op = op, !.id = id, !.status = "ok", !.entry = name],
             [Failure(op, id, <<>>, "extract") EXCEPT !.entry = name]}

\* The lookup shared by download_file and get_file_bytes.
Resolve(op, idx, dsk, id) ==
    IF idx.kind # "index" THEN {Failure(op, id, <<>>, "open_index")}
    ELSE IF Cardinality(IdMatches(idx.docs, id)) < LookupLimit
         THEN {Failure(op, id, <<>>, "not_found")}
         ELSE UNION {ExtractFrom(op, dsk, idx.docs[k], id) : k \in IdMatches(idx.docs, id)}

download_file(idx, dsk, id) == Resolve("download_file", idx, dsk, id)

get_file_bytes(idx, dsk, id) == Resolve("get_file_bytes", idx, dsk, id)

\* -------------------------------------------------------------- inputs

\* The largest number of build_index calls in a behaviour.
MaxBuilds == 2

\* zip_archives_dir
ArchivesDir == <<"z">>

AuthorDoe == <<"D", "o", "e", " ", "J", ".">>
AuthorRoe == <<"R", "o", "e">>
TitleOne == <<"B", "o", "o", "k", " ", "O", "n", "e">>
TitleTwo == <<"B", "o", "o", "k", " ", "T", "w", "o">>
TitleNew == <<"N", "e", "w", " ", "O", "n", "e">>
TitleBook == <<"B", "o", "o", "k">>

RECURSIVE JoinFields(_)
JoinFields(fields) ==
    IF Len(fields) = 1 THEN fields[1]
    ELSE fields[1] \o <<SEP>> \o JoinFields(Tail(fields))

\* A catalog line of n fields with the given author, title and id text.
CatalogLine(author, title, idText, n) ==
    JoinFields([k \in 1..n |-> CASE k = 1 -> author
                                 [] k = 3 -> title
                                 [] k = IdField -> idText
                                 [] OTHER -> <<>>])

LineFive == CatalogLine(AuthorDoe, TitleOne, <<"5">>, MinFields)
LineShort == CatalogLine(AuthorRoe, TitleTwo, <<"8">>, MinFields - 1)
LineBadId == CatalogLine(AuthorRoe, TitleTwo, <<"x", "7">>, MinFields)
LineTooBig == CatalogLine(AuthorRoe, TitleTwo, StripZeros(<<"0">> \o U64MaxDigits) \o <<"0">>,
                          MinFields + 1)
LineSeven == CatalogLine(AuthorRoe, TitleTwo, <<"+", "7">>, MinFields + 1)
LineFiveAgain == CatalogLine(AuthorDoe, TitleNew, <<"0", "5">>, MinFields)

NameA == <<"a">> \o INP
NameB == <<"b">> \o INP
NameR == <<"r", ".", "t", "x", "t">>

Member(name, open, utf8, data) ==
    [name |-> name, open |-> open, utf8 |-> utf8, data |-> data]

MemberA == Member(NameA, TRUE, TRUE,
                  LineFive \o <<CR, LF>> \o LineShort \o <<LF>> \o LineBadId \o <<LF>>)
MemberB == Member(NameB, TRUE, TRUE,
                  LineSeven \o <<LF>> \o LineFiveAgain \o <<LF>> \o LineTooBig)
MemberR == Member(NameR, TRUE, TRUE, LineFive)
MemberLocked == Member(NameB, FALSE, TRUE, LineSeven)
MemberBinary == Member(NameB, TRUE, FALSE, LineSeven)

\* One member of SearchLimit + 1 valid lines, ids 1, 2, ...
RECURSIVE ManyLines(_)
ManyLines(n) ==
    IF n = 0 THEN <<>>
    ELSE ManyLines(n - 1) \o CatalogLine(AuthorRoe, TitleBook, U64ToString(n), MinFields)
                          \o <<LF>>

MemberMany == Member(NameA, TRUE, TRUE, ManyLines(SearchLimit + 1))

\* The .inpx files build_index is called with, by path. `valid` is false
\* of a path that cannot be opened or is no zip file.
Container(valid, members) == [valid |-> valid, members |-> members]

InpxFiles ==
    [ one |-> Container(TRUE, <<MemberA>>),
      two |-> Container(TRUE, <<MemberA, MemberB>>),
      readme |-> Container(TRUE, <<MemberR, MemberA, MemberB>>),
      locked |-> Container(TRUE, <<MemberLocked, MemberA>>),
      binary |-> Container(TRUE, <<MemberBinary, MemberA>>),
      many |-> Container(TRUE, <<MemberMany>>),
      broken |-> Container(FALSE, <<>>) ]

InpxPaths == DOMAIN InpxFiles

PathA == PathJoin(ArchivesDir, <<"a">> \o ZIP)
PathB == PathJoin(ArchivesDir, <<"b">> \o ZIP)
ArchivePaths == {PathA, PathB}

Archive(kind, names) == [kind |-> kind, names |-> names]

\* The archives directory at the start.
InitialDisks ==
    { [p \in ArchivePaths |-> IF p = PathA THEN Archive("zip", {InternalFileName(5)}) ELSE b]
      : b \in { Archive("zip", {InternalFileName(7)}),
                Archive("corrupt", {}) } }

ReaderIds == {5, 9}

Queries == { <<"b", "o", "o", "k">>, <<"D", "O", "E", " ", "o", "n", "e">>,
             <<"\"", "o", "n", "e">> }

\* --------------------------------------------------------------- state

VARIABLES
    index,          \* the index directory: [kind, schema, docs]
    disk,           \* the archives directory: path -> [kind, names]
    outputs,        \* the files download_file has created in "."
    pc,             \* build_index: "idle", "opened" (index and writer open), "adding"
    inpx,           \* the .inpx path of the build in progress or last run ("" before)
    books,          \* the books of the build, once collected
    existing,       \* the archive paths that existed when the books were collected
    added,          \* the documents added to the writer, not committed
    startDocs,      \* the committed documents when the build began
    opened,         \* the last open_or_create_index: [mode, was, ok]
    buildResult,    \* what the last build_index returned
    builds,         \* the number of build_index calls begun
    result          \* the outcome of a reader call that nothing has followed

vars == <<index, disk, outputs, pc, inpx, books, existing, added, startDocs,
          opened, buildResult, builds, result>>

buildVars == <<pc, inpx, books, existing, added, startDocs, opened,
               buildResult, builds>>

Init ==
    /\ index \in {[kind |-> k, schema |-> <<>>, docs |-> <<>>] : k \in {"absent", "file", "dir"}}
    /\ disk \in InitialDisks
    /\ outputs = {}
    /\ pc = "idle"
    /\ inpx = ""
    /\ books = <<>>
    /\ existing = {}
    /\ added = <<>>
    /\ startDocs = <<>>
    /\ opened = [mode |-> "none", was |-> "absent", ok |-> FALSE]
    /\ buildResult = "none"
    /\ builds = 0
    /\ result = NoResult

\* build_index returns: the writer is dropped with what it had not committed.
Return(res) ==
    /\ pc' = "idle"
    /\ added' = <<>>
    /\ buildResult' = res

\* build_tantivy_index, lines 57-63: open_or_create_index and the writer.
BuildOpenIndex(c) ==
    /\ pc = "idle"
    /\ builds < MaxBuilds
    /\ LET r == open_or_create_index(index)
       IN /\ opened' = [mode |-> r.mode, was |-> index.kind, ok |-> r.ok]
          /\ index' = r.index
          /\ IF r.ok THEN pc' = "opened" /\ added' = <<>> /\ buildResult' = "running"
                     ELSE Return("err_index")
    /\ builds' = builds + 1
    /\ inpx' = c
    /\ books' = <<>>
    /\ existing' = {}
    /\ startDocs' = index.docs
    /\ result' = NoResult
    /\ UNCHANGED <<disk, outputs>>

\* build_tantivy_index, lines 65-172: the container is opened and the two
\* loops run.
BuildCollect ==
    /\ pc = "opened"
    /\ LET now == {p \in ArchivePaths : ArchiveExists(disk, p)}
           r == CollectBooks(InpxFiles[inpx].members, ArchivesDir, now)
       IN /\ existing' = now
          /\ IF ~InpxFiles[inpx].valid
             THEN Return("err_container") /\ UNCHANGED books
             ELSE IF r.err
                  THEN Return("err_member") /\ UNCHANGED books
                  ELSE /\ books' = r.books
                       /\ pc' = "adding"
                       /\ UNCHANGED <<added, buildResult>>
    /\ result' = NoResult
    /\ UNCHANGED <<index, disk, outputs, inpx, startDocs, opened, builds>>

\* The documents the writer holds after add_document of a book.
AddDocument(pending, book) == Append(pending, DocOf(book))

\* BuildAddDocument with a commit after every document.
BuildAddDocumentCommitEach ==
    /\ pc = "adding"
    /\ Len(added) < Len(books)
    /\ \/ /\ added' = AddDocument(added, books[Len(added) + 1])
          /\ index' = [index EXCEPT !.docs = Append(@, DocOf(books[Len(added) + 1]))]
          /\ UNCHANGED <<pc, buildResult>>
       \/ Return("err_add") /\ UNCHANGED index
    /\ result' = NoResult
    /\ UNCHANGED <<disk, outputs, inpx, books, existing, startDocs, opened, builds>>

\* build_tantivy_index, lines 175-182: one iteration; add_document may fail.
BuildAddDocument ==
    /\ pc = "adding"
    /\ Len(added) < Len(books)
    /\ \/ /\ added' = AddDocument(added, books[Len(added) + 1])
          /\ UNCHANGED <<pc, buildResult>>
       \/ Return("err_add")
    /\ result' = NoResult
    /\ UNCHANGED <<index, disk, outputs, inpx, books, existing, startDocs,
                   opened, builds>>

\* BuildCommit whose failing commit has published the documents all the same.
BuildCommitLeaky ==
    /\ pc = "adding"
    /\ Len(added) = Len(books)
    /\ \/ /\ index' = [index EXCEPT !.docs = Commit(@, added)]
          /\ Return("ok")
       \/ /\ Return("err_commit")
          /\ index' = [index EXCEPT !.docs = Commit(@, added)]
    /\ result' = NoResult
    /\ UNCHANGED <<disk, outputs, inpx, books, existing, startDocs,
                   opened, builds>>

\* build_tantivy_index, lines 184-188: the commit, which may fail.
BuildCommit ==
    /\ pc = "adding"
    /\ Len(added) = Len(books)
    /\ \/ /\ index' = [index EXCEPT !.docs = Commit(@, added)]
          /\ Return("ok")
       \/ /\ Return("err_commit")
          /\ UNCHANGED index
    /\ result' = NoResult
    /\ UNCHANGED <<disk, outputs, inpx, books, existing, startDocs,
                   opened, builds>>

\* FlibRS::search
Search(q) ==
    /\ result' \in search_tantivy(index, q)
    /\ UNCHANGED <<index, disk, outputs>>
    /\ UNCHANGED buildVars

\* FlibRS::get_info
GetInfo(id) ==
    /\ result' \in get_info(index, id)
    /\ UNCHANGED <<index, disk, outputs>>
    /\ UNCHANGED buildVars

\* FlibRS::download: the output file "./<id>.fb2" is created before the
\* entry is extracted into it.
Download(id) ==
    /\ result' \in download_file(index, disk, id)
    /\ outputs' = IF result'.entry # <<>> THEN outputs \cup {result'.entry} ELSE outputs
    /\ UNCHANGED <<index, disk>>
    /\ UNCHANGED buildVars

\* FlibRS::get_file_bytes
GetFileBytes(id) ==
    /\ result' \in get_file_bytes(index, disk, id)
    /\ UNCHANGED <<index, disk, outputs>>
    /\ UNCHANGED buildVars

\* The environment removes an archive from the archives directory.
RemoveArchive(p) ==
    /\ ArchiveExists(disk, p)
    /\ disk' = [disk EXCEPT ![p] = Archive("missing", {})]
    /\ result' = NoResult
    /\ UNCHANGED <<index, outputs>>
    /\ UNCHANGED buildVars

Next ==
    \/ \E c \in InpxPaths : BuildOpenIndex(c)
    \/ BuildCollect
    \/ BuildAddDocument
    \/ BuildCommit
    \/ \E q \in Queries : Search(q)
    \/ \E id \in ReaderIds : GetInfo(id)
    \/ \E id \in ReaderIds : Download(id)
    \/ \E id \in ReaderIds : GetFileBytes(id)
    \/ \E p \in ArchivePaths : RemoveArchive(p)

Spec == Init /\ [][Next]_vars

\* -------------------------------------------------------------- claims

\* How many elements of the sequence s equal x.
Count(s, x) == Cardinality({k \in DOMAIN s : s[k] = x})

\* A build_index call has returned success after starting on an empty index.
BuiltFromEmpty == pc = "idle" /\ buildResult = "ok" /\ startDocs = <<>>

\* The fields of a catalog line.
FieldsOf(line) == Split(line, SEP)

\* A member whose lines are to be ingested: named *.inp, opened and read.
Ingestible(m) == EndsWith(m.name, INP) /\ m.open /\ m.utf8

\* The archive path the catalog derives for member m.
OwnArchive(m) == PathJoin(ArchivesDir, zip_file_name(m.name))

\* A line of member m is valid: at least 11 fields, field 5 an unsigned
\* 64-bit number, and the archive of m exists.
ValidLine(m, line, exist) ==
    /\ Len(FieldsOf(line)) >= 11
    /\ ParseU64(FieldsOf(line)[6]).ok
    /\ OwnArchive(m) \in exist

\* The document a valid line of member m is to yield.
ExpectedDoc(m, line) ==
    [id |-> ParseU64(FieldsOf(line)[6]).val, author |-> FieldsOf(line)[1],
     title |-> FieldsOf(line)[3], zip_archive |-> OwnArchive(m)]

\* The documents the valid lines of a container are to yield, one per line.
RECURSIVE ExpectedDocs(_, _)
ExpectedDocs(members, exist) ==
    IF members = <<>> THEN <<>>
    ELSE LET m == Head(members)
             ls == IF Ingestible(m) THEN Lines(m.data) ELSE <<>>
             ok == SelectSeq(ls, LAMBDA l : ValidLine(m, l, exist))
         IN [k \in DOMAIN ok |-> ExpectedDoc(m, ok[k])] \o ExpectedDocs(Tail(members), exist)

\* The member the i-th text of contents_vec was read from.
RECURSIVE SourceMember(_, _)
SourceMember(members, i) ==
    IF Ingestible(Head(members))
    THEN (IF i = 1 THEN Head(members) ELSE SourceMember(Tail(members), i - 1))
    ELSE SourceMember(Tail(members), i)

\* The (i, line) pairs the last build made a book from, and all it visited.
AcceptedPairs == CollectBooks(InpxFiles[inpx].members, ArchivesDir, existing).lines
VisitedPairs == LinePairs(contents_vec(InpxFiles[inpx].members), 1)

PairValid(pr) == ValidLine(SourceMember(InpxFiles[inpx].members, pr.i), pr.line, existing)

\* C1: after a successful ingestion into an empty index, every valid line
\* of every *.inp member has exactly one document, with the id, author and
\* title of the line and the archive path derived from its own member.
C1_ValidLinesIndexed ==
    BuiltFromEmpty =>
        LET want == ExpectedDocs(InpxFiles[inpx].members, existing)
        IN \A k \in DOMAIN want : Count(index.docs, want[k]) = Count(want, want[k])

\* A container with a member that cannot be opened or read as text.
HasFailingMember(c) == \E k \in DOMAIN c.members : ~c.members[k].open \/ ~c.members[k].utf8

\* C2: when a container whose members can all be read holds a line that is
\* not valid, build_index does not fail at a line, no such line yields a
\* document, and every valid line of the container still yields one.
C2_InvalidLinesSkipped ==
    (/\ pc = "idle"
     /\ buildResult \in {"ok", "err_member"}
     /\ InpxFiles[inpx].valid
     /\ ~HasFailingMember(InpxFiles[inpx])
     /\ \E k \in DOMAIN VisitedPairs : ~PairValid(VisitedPairs[k]))
    => /\ buildResult = "ok"
       /\ \A k \in DOMAIN AcceptedPairs : PairValid(AcceptedPairs[k])
       /\ \A k \in DOMAIN VisitedPairs :
              PairValid(VisitedPairs[k]) => Count(AcceptedPairs, VisitedPairs[k]) >= 1

\* C3: a member that cannot be opened or read does not make build_index
\* return an error, and the valid lines of the other members are indexed
\* with the archive path of their own member.
C3_FailingMemberSkipped ==
    (/\ pc = "idle"
     /\ buildResult \in {"ok", "err_member"}
     /\ startDocs = <<>>
     /\ InpxFiles[inpx].valid
     /\ HasFailingMember(InpxFiles[inpx]))
    => /\ buildResult = "ok"
       /\ LET want == ExpectedDocs(InpxFiles[inpx].members, existing)
          IN \A k \in DOMAIN want : Count(index.docs, want[k]) >= 1

\* The outcomes the reader call recorded in r has on the index idx.
OutcomesOn(r, idx) ==
    CASE r.op = "search" -> search_tantivy(idx, r.query)
      [] r.op = "get_info" -> get_info(idx, r.id)
      [] r.op = "download_file" -> download_file(idx, disk, r.id)
      [] r.op = "get_file_bytes" -> get_file_bytes(idx, disk, r.id)
      [] OTHER -> {r}

\* The documents of the books of the build, in order.
BatchDocs == [k \in DOMAIN books |-> DocOf(books[k])]

\* C4: a reader call made while build_index runs returns what it would on
\* the documents committed before the build began; once the build has
\* returned success it returns what it would on those documents followed
\* by the whole batch.
C4_ReadersSeeWholeBatches ==
    /\ (pc # "idle" /\ result.op # "none")
           => result \in OutcomesOn(result, [index EXCEPT !.docs = startDocs])
    /\ (pc = "idle" /\ buildResult = "ok" /\ result.op # "none")
           => result \in OutcomesOn(result, [index EXCEPT !.docs = startDocs \o BatchDocs])

\* C4 witness: get_info(5) fails while the writer holds an uncommitted
\* document with id 5 and has more documents to add.
C4_Witness ==
    /\ pc = "adding"
    /\ 0 < Len(added) /\ Len(added) < Len(books)
    /\ \E k \in DOMAIN added : added[k].id = 5
    /\ result.op = "get_info" /\ result.id = 5 /\ result.status = "err"
    /\ index.kind = "index"

\* The accepted lines of the last build whose id is `id`.
AcceptedWithId(id) ==
    {k \in DOMAIN AcceptedPairs : ParseU64(FieldsOf(AcceptedPairs[k].line)[6]).val = id}

\* C5: after a successful ingestion into an empty index, get_info of an id
\* that occurs in exactly one accepted line returns (field 2, field 0) of
\* that line.
C5_RoundTrip ==
    (BuiltFromEmpty /\ result.op = "get_info" /\ Cardinality(AcceptedWithId(result.id)) = 1)
    => LET k == CHOOSE j \in AcceptedWithId(result.id) : TRUE
           f == FieldsOf(AcceptedPairs[k].line)
       IN result.status = "ok" /\ result.info = <<f[3], f[1]>>

\* C5 witness: the catalog of the single member a.inp, whose one valid line
\* has author "Doe J.", title "Book One" and id 5; get_info(5) has
\* returned ("Book One", "Doe J.").
C5_Witness ==
    /\ BuiltFromEmpty
    /\ inpx = "one"
    /\ result.op = "get_info" /\ result.id = 5 /\ result.status = "ok"
    /\ result.info = << <<"B", "o", "o", "k", " ", "O", "n", "e">>,
                        <<"D", "o", "e", " ", "J", ".">> >>

\* C6: get_info of an id no document of the index has returns an error
\* and no strings.
C6_AbsentIdIsError ==
    (/\ result.op = "get_info"
     /\ \/ index.kind # "index"
        \/ \A k \in DOMAIN index.docs : index.docs[k].id # result.id)
    => result.status = "err" /\ result.info = <<>>

\* C6 witness: after two ingestions get_info(9) has failed on an index that
\* holds documents, none of them with id 9.
C6_Witness ==
    /\ result.op = "get_info" /\ result.status = "err" /\ result.err = "no_document"
    /\ index.kind = "index"
    /\ result.id = 9 /\ Len(index.docs) > 0 /\ builds = 2

\* C7: search returns at most 10 results, each the id, author and title
\* of a document of the index.
C7_SearchBounded ==
    (result.op = "search" /\ result.status = "ok")
    => /\ Len(result.hits) <= 10
       /\ \A h \in DOMAIN result.hits :
              \E k \in DOMAIN index.docs :
                  /\ index.docs[k].id = result.hits[h][1]
                  /\ index.docs[k].author = result.hits[h][2]
                  /\ index.docs[k].title = result.hits[h][3]

\* C7 witness: a search has returned 10 results from an index in which more
\* than 10 documents match.
C7_Witness ==
    /\ result.op = "search" /\ result.status = "ok"
    /\ Len(result.hits) = 10
    /\ Cardinality({k \in DOMAIN index.docs : Score(index.docs[k], ParseQuery(result.query).terms) > 0})
           > 10

\* The name "<id>.fb2" for the ids the readers ask for.
EntryNameOf(id) ==
    (IF id = 5 THEN <<"5">> ELSE IF id = 9 THEN <<"9">> ELSE <<"?">>) \o <<".", "f", "b", "2">>

\* What an extraction recorded in r is to be for the retrieved document d.
ExtractionAsClaimed(r, d) ==
    IF ~ArchiveExists(disk, d.zip_archive)
    THEN r.status = "err" /\ r.err = "archive_missing" /\ r.entry = <<>>
    ELSE IF disk[d.zip_archive].kind = "corrupt"
    THEN r.status = "err" /\ r.err = "partial_zip" /\ r.entry = <<>>
    ELSE IF EntryNameOf(r.id) \notin disk[d.zip_archive].names
    THEN r.status = "err" /\ r.err = "entry_not_found" /\ r.entry = <<>>
    ELSE r.entry = EntryNameOf(r.id) /\ (r.status = "ok" \/ r.err = "extract")

\* C8: on an index that opens, download_file and get_file_bytes fail with
\* "not found" when no document has the id; else, for the document
\* retrieved, with "archive missing" when its archive path does not exist,
\* and with "entry not found" when the archive opens and its names lack
\* "<id>.fb2"; only otherwise is an entry asked for, and it is "<id>.fb2".
C8_ExtractionChecks ==
    (result.op \in {"download_file", "get_file_bytes"} /\ index.kind = "index")
    => IF \A k \in DOMAIN index.docs : index.docs[k].id # result.id
       THEN result.status = "err" /\ result.err = "not_found" /\ result.entry = <<>>
       ELSE \E k \in DOMAIN index.docs :
                index.docs[k].id = result.id /\ ExtractionAsClaimed(result, index.docs[k])

\* C8 witness: get_file_bytes(5) has failed with "entry not found": the
\* document retrieved for id 5 names an archive that exists, opens and
\* holds no "5.fb2".
C8_Witness ==
    /\ result.op = "get_file_bytes" /\ result.id = 5
    /\ result.status = "err" /\ result.err = "entry_not_found"
    /\ \E k \in DOMAIN index.docs :
           /\ index.docs[k].id = 5
           /\ ArchiveExists(disk, index.docs[k].zip_archive)
           /\ <<"5", ".", "f", "b", "2">> \notin disk[index.docs[k].zip_archive].names

\* C9 as claimed: after a successful build_index no two visible documents
\* have the same id.
C9_IdsUnique ==
    (pc = "idle" /\ buildResult = "ok")
    => \A j, k \in DOMAIN index.docs : j # k => index.docs[j].id # index.docs[k].id

\* The ids of the documents of a sequence.
IdsOf(docs) == {docs[k].id : k \in DOMAIN docs}

\* C9 as amended: after a successful build_index an id has as many visible
\* documents as it had before the build plus one per book of the build
\* with that id; none is replaced.
C9_IdsAccumulate ==
    (pc = "idle" /\ buildResult = "ok")
    => \A id \in IdsOf(index.docs) \cup IdsOf(startDocs) \cup IdsOf(BatchDocs) :
           Cardinality(IdMatches(index.docs, id))
               = Cardinality(IdMatches(startDocs, id)) + Cardinality(IdMatches(BatchDocs, id))

\* C9 witness: a second successful build_index has left documents with the
\* same id and different titles visible.
C9_Witness ==
    /\ pc = "idle" /\ buildResult = "ok" /\ builds = 2 /\ startDocs # <<>>
    /\ \E j, k \in DOMAIN index.docs :
           /\ j < k
           /\ index.docs[j].id = index.docs[k].id
           /\ index.docs[j].title # index.docs[k].title
           /\ j <= Len(startDocs) /\ k > Len(startDocs)

\* The index path is a directory.
IsDir(kind) == kind \in {"dir", "index"}

\* C10: open_or_create_index opens exactly when the path is a directory,
\* creates otherwise, and after success an index with the four-field
\* schema (id, author, title, archive path) is at the path.
C10_OpensIffDirectory ==
    opened.mode # "none"
    => /\ (opened.mode = "open") <=> IsDir(opened.was)
       /\ (opened.mode = "create") <=> ~IsDir(opened.was)
       /\ opened.ok => /\ index.kind = "index"
                       /\ [k \in DOMAIN index.schema |-> index.schema[k].name]
                              = <<"id", "author", "title", "zip_archive">>

\* build_index has returned an error.
BuildFailed ==
    pc = "idle" /\ buildResult \in {"err_index", "err_container", "err_member",
                                     "err_add", "err_commit"}

\* C11: once build_index has created or opened the index and no document
\* is committed, search of a parseable query succeeds with no results,
\* get_info fails with its no-document error, and download_file and
\* get_file_bytes fail with "not found"; none fails to open the index.
C11_EmptyIndexTolerated ==
    (opened.ok /\ index.docs = <<>> /\ result.op # "none")
    => /\ result.err # "open_index"
       /\ (result.op = "search" /\ ParseQuery(result.query).ok)
              => result.status = "ok" /\ result.hits = <<>>
       /\ result.op = "get_info"
              => result.status = "err" /\ result.err = "no_document"
       /\ result.op \in {"download_file", "get_file_bytes"}
              => result.status = "err" /\ result.err = "not_found" /\ result.entry = <<>>

\* C11 witness: build_index created the index and failed on its container;
\* a search of a parseable query has since returned no results.
C11_Witness ==
    /\ pc = "idle" /\ buildResult = "err_container"
    /\ opened.mode = "create" /\ opened.ok
    /\ index.kind = "index" /\ index.docs = <<>>
    /\ result.op = "search" /\ ParseQuery(result.query).ok
    /\ result.status = "ok" /\ result.hits = <<>>

\* C12: after build_index has returned an error the committed documents
\* are those committed before the call, and every reader call returns what
\* it would on them.
C12_FailedBuildInvisible ==
    BuildFailed
    => /\ index.docs = startDocs
       /\ result.op # "none"
              => result \in OutcomesOn(result, [index EXCEPT !.docs = startDocs])

\* C12 witness: the second build_index added every document of a batch
\* holding id 5 and failed at the commit; the documents visible are the
\* ones the first build committed, and a search has run on them.
C12_Witness ==
    /\ pc = "idle" /\ buildResult = "err_commit"
    /\ builds = 2 /\ startDocs # <<>> /\ index.docs = startDocs
    /\ \E k \in DOMAIN books : books[k].id = 5
    /\ result.op = "search" /\ result.status = "ok"
    /\ Len(result.hits) = Len(startDocs)

====
